---- MODULE Spec2Model ----
(***************************************************************************)
(* Authentication core of AWS-Go-Server: the Cognito token verifier with   *)
(* its JWKS cache (internal/auth), the bearer middleware                    *)
(* (internal/middleware/auth.go), the local JWTService (internal/auth/     *)
(* jwt.go) and the SigV4-style middleware (internal/aws/auth.go).          *)
(*                                                                         *)
(* Time is a discrete clock: TicksPerHour ticks to the hour on the bearer  *)
(* path, one tick to the minute on the signature path.                     *)
(***************************************************************************)
EXTENDS Integers, Sequences, FiniteSets, TLC

VARIABLES
    now,          \* wall clock read by time.Now() on the bearer path
    jwksCache,    \* CognitoService.jwksCache (NoKeys models the nil interface)
    cacheExpiry,  \* CognitoService.cacheExpiry (0 models the zero time.Time)
    req,          \* one record per in-flight bearer request (goroutine)
    seq,          \* bookkeeping: how the previous call ended, and whether
                  \* cacheExpiry was stored by the call that fetched jwksCache
    jwtSt,        \* JWTService scenario: issued pair, presented token, result
    iamSt,        \* signature-middleware scenario: request, time, response
    gateSt,       \* authorization scenario: user, question asked, answer
    items,        \* handlers: the in-memory map of items, id -> Item
    nextID,       \* handlers: the id of the next item
    itemsMux,     \* handlers: the sync.RWMutex protecting items and nextID
    itemReq,      \* one record per in-flight items request (goroutine)
    created       \* bookkeeping: the 201 responses sent so far, in order

authVars == <<now, jwksCache, cacheExpiry, req, seq, jwtSt, iamSt, gateSt>>
itemVars == <<items, nextID, itemsMux, itemReq, created>>
vars == <<now, jwksCache, cacheExpiry, req, seq, jwtSt, iamSt, gateSt,
          items, nextID, itemsMux, itemReq, created>>

(***************************************************************************)
(* Bounds                                                                  *)
(***************************************************************************)
NumReq == 2
MaxTime == 3
TicksPerHour == 1
NumClients == 2      \* concurrent items requests
MaxCreates == 2      \* item-create requests that reach the store

Reqs == 1..NumReq

(***************************************************************************)
(* Configuration (config.CognitoConfig) and the provider's key material    *)
(***************************************************************************)
Region == "us-east-1"
UserPoolID == "pool1"

\* The signing keys the identity provider publishes at the JWKS URL.
ProviderKeys == {"k1"}

\* s.jwksCache before the first successful refresh (nil jwk.Set).
NoKeys == [keys |-> {}, fetchedAt |-> -1]

\* What cache.Refresh returns at time t: the provider's keys.  fetchedAt
\* records when this particular key set was obtained.
FetchedKeySet(t) == [keys |-> ProviderKeys, fetchedAt |-> t]

\* 1 * time.Hour in clock ticks.
CacheTTL == 1 * TicksPerHour

(***************************************************************************)
(* Strings that the code compares or transforms                            *)
(***************************************************************************)
\* strings.ToLower on the scheme words that occur in the model.
ToLower(s) ==
    CASE s = "Bearer" -> "bearer"
      [] s = "BEARER" -> "bearer"
      [] s = "Basic"  -> "basic"
      [] s = "POOL1"  -> "pool1"
      [] OTHER        -> s

\* fmt.Sprintf("https://cognito-idp.%s.amazonaws.com/%s", region, pool),
\* kept as the sequence of its pieces so that prefixes and case variants
\* are distinct values.
IssuerFor(region, pool) ==
    <<"https://cognito-idp.", region, ".amazonaws.com/", pool>>

ExpectedIssuer == IssuerFor(Region, UserPoolID)

IsPrefixOf(p, s) ==
    /\ Len(p) <= Len(s)
    /\ \A i \in 1..Len(p) : p[i] = s[i]

(***************************************************************************)
(* Bearer tokens.  A token is the text after "Bearer ": structurally a JWT *)
(* (form "jwt") or not.  sigKey names the key that produced the signature: *)
(* one of the provider's keys, or a key the provider never published (a    *)
(* tampered or forged signature).  An optional claim is a sequence of      *)
(* length 0 or 1 (token.Get returns ok only for length 1).                 *)
(***************************************************************************)
IssuerCandidates ==
    { ExpectedIssuer,
      ExpectedIssuer \o <<"/x">>,                  \* expected is a proper prefix
      IssuerFor(Region, "POOL1"),                  \* differs in case only
      <<"aws-go-server">> }

GroupLists == { <<>>, <<"user">>, <<"admin">>, <<"editor", "admin">> }

ExpValues == { 1, MaxTime + 1 }

JwtTokens ==
    [ form : {"jwt"}, sigKey : {"k1", "forged"}, iss : IssuerCandidates,
      use : { <<>>, <<"access">>, <<"id">> }, exp : ExpValues,
      sub : {"u1"}, email : {"e1"}, username : {"n1"},
      groups : GroupLists, iat : {0} ]

GarbageToken ==
    [ form |-> "garbage", sigKey |-> "forged", iss |-> <<>>, use |-> <<>>,
      exp |-> 0, sub |-> "", email |-> "", username |-> "",
      groups |-> <<>>, iat |-> 0 ]

EmptyToken == [ GarbageToken EXCEPT !.form = "empty" ]

AllTokens == JwtTokens \cup {GarbageToken}

\* An access token as the provider issues it.
AccessToken(groups, exp) ==
    [ form |-> "jwt", sigKey |-> "k1", iss |-> ExpectedIssuer,
      use |-> <<"access">>, exp |-> exp, sub |-> "u1", email |-> "e1",
      username |-> "n1", groups |-> groups, iat |-> 0 ]

(***************************************************************************)
(* auth.Claims, auth.User and the errors of package auth                   *)
(***************************************************************************)
NilClaims ==
    [ isNil |-> TRUE, UserID |-> "", Email |-> "", Username |-> "",
      Roles |-> <<>>, IsAdmin |-> FALSE, IssuedAt |-> 0, ExpiresAt |-> 0 ]

NoUser ==
    [ isNil |-> TRUE, ID |-> "", Email |-> "", Username |-> "",
      Roles |-> <<>>, IsAdmin |-> FALSE ]

ErrNil == "nil"
ErrInvalidToken == "invalid token"
ErrExpiredToken == "token has expired"
ErrRefreshFailed == "failed to refresh JWKS cache"
ErrRefreshCancelled == "failed to refresh JWKS cache: context canceled"

NoResult == [ claims |-> NilClaims, err |-> "pending" ]

(***************************************************************************)
(* CognitoService: refreshJWKSCache and ValidateToken                      *)
(***************************************************************************)
\* The guard that never trusts the cache.
CacheValid_NeverValid(keys, expiry, t) == FALSE

\* The guard without its expiry test.
CacheValid_NoExpiry(keys, expiry, t) == keys # NoKeys

\* refreshJWKSCache's guard: s.jwksCache != nil && time.Now().Before(s.cacheExpiry)
CacheValid(keys, expiry, t) == keys # NoKeys /\ t < expiry

\* Parsing without verification.
VerifySignature_Skipped(tok, keys) == TRUE

\* Signature verification of jwt.Parse(..., jwt.WithKeySet(keys)): the token
\* verifies iff the key that signed it is in the key set.
VerifySignature(tok, keys) == tok.sigKey \in keys.keys

\* jwt.WithValidate(true): the exp claim must lie after the current time.
NotExpired(tok, t) == t < tok.exp

\* jwt.Parse: structure, then signature, then validation; the reason of a
\* failure, or "nil".
JwtParse(tok, keys, t) ==
    IF tok.form # "jwt" THEN "malformed"
    ELSE IF ~VerifySignature(tok, keys) THEN "signature"
    ELSE IF ~NotExpired(tok, t) THEN "expired"
    ELSE "nil"

\* strings.HasPrefix(token.Issuer(), expectedIssuer) in place of equality.
IssuerMatches_Prefix(iss) == IsPrefixOf(ExpectedIssuer, iss)

\* token.Issuer() != expectedIssuer
IssuerMatches(iss) == iss = ExpectedIssuer

\* The token_use test with its !ok branch lost: a token without the claim passes.
TokenUseIsAccess_MissingOK(use) == Len(use) = 0 \/ use[1] = "access"

\* tokenUse, ok := token.Get("token_use"); !ok || tokenUse != "access"
TokenUseIsAccess(use) == Len(use) = 1 /\ use[1] = "access"

\* The admin test that looks at the first group only.
HasAdminGroup_FirstOnly(groups) == Len(groups) > 0 /\ groups[1] = "admin"

\* for _, role := range claims.Roles { if role == "admin" { IsAdmin = true } }
HasAdminGroup(roles) == \E i \in 1..Len(roles) : roles[i] = "admin"

\* Claims whose UserID is taken from cognito:username.
ExtractClaims_UsernameAsID(tok) ==
    [ isNil |-> FALSE, UserID |-> tok.username, Email |-> tok.email,
      Username |-> tok.username, Roles |-> tok.groups,
      IsAdmin |-> HasAdminGroup(tok.groups),
      IssuedAt |-> tok.iat, ExpiresAt |-> tok.exp ]

\* The claims extraction at the end of ValidateToken.
ExtractClaims(tok) ==
    [ isNil |-> FALSE, UserID |-> tok.sub, Email |-> tok.email,
      Username |-> tok.username, Roles |-> tok.groups,
      IsAdmin |-> HasAdminGroup(tok.groups),
      IssuedAt |-> tok.iat, ExpiresAt |-> tok.exp ]

\* The error a failed jwt.Parse is turned into.
ParseError(reason) == ErrInvalidToken

\* ValidateToken after refreshJWKSCache returned nil: parse against the key
\* set read from s.jwksCache at time t, then issuer, token_use, claims.
ValidateAfterRefresh(tok, keys, t) ==
    LET reason == JwtParse(tok, keys, t) IN
    IF reason # "nil"
      THEN [ claims |-> NilClaims, err |-> ParseError(reason) ]
    ELSE IF ~IssuerMatches(tok.iss)
      THEN [ claims |-> NilClaims, err |-> ErrInvalidToken ]
    ELSE IF ~TokenUseIsAccess(tok.use)
      THEN [ claims |-> NilClaims, err |-> ErrInvalidToken ]
    ELSE [ claims |-> ExtractClaims(tok), err |-> ErrNil ]

(***************************************************************************)
(* The Authorization header of a bearer request: scheme, then `spaces`     *)
(* space characters, then the token text.  The empty header is the empty   *)
(* scheme followed by nothing.                                             *)
(***************************************************************************)
EmptyHeader == [ scheme |-> "", spaces |-> 0, tok |-> EmptyToken ]

Bearer(tok) == [ scheme |-> "Bearer", spaces |-> 1, tok |-> tok ]

\* authHeader == ""
HeaderIsEmpty(h) == h.scheme = "" /\ h.spaces = 0 /\ h.tok.form = "empty"

\* len(strings.SplitN(authHeader, " ", 2)): two parts iff there is a space.
SplitParts(h) == IF h.spaces = 0 THEN 1 ELSE 2

\* The format test without the comparison of the scheme.
HeaderFormatOK_AnyScheme(h) == SplitParts(h) = 2

\* len(parts) != 2 || strings.ToLower(parts[0]) != "bearer"
HeaderFormatOK(h) == SplitParts(h) = 2 /\ ToLower(h.scheme) = "bearer"

\* The client-visible messages of http.Error in Authenticate.
MsgMissingHeader == "Unauthorized: missing authorization header"
MsgBadFormat == "Unauthorized: invalid authorization header format"
MsgInvalidToken == "Unauthorized: invalid token"

\* The conversion that leaves the roles out.
UserFromClaims_NoRoles(c) ==
    [ isNil |-> FALSE, ID |-> c.UserID, Email |-> c.Email,
      Username |-> c.Username, Roles |-> << >>, IsAdmin |-> c.IsAdmin ]

\* user := &auth.User{ID: claims.UserID, ...}
UserFromClaims(c) ==
    [ isNil |-> FALSE, ID |-> c.UserID, Email |-> c.Email,
      Username |-> c.Username, Roles |-> c.Roles, IsAdmin |-> c.IsAdmin ]

(***************************************************************************)
(* One bearer request.  pc is the position of its goroutine:               *)
(*   idle        no request in this slot                                   *)
(*   start       in Authenticate, before the header checks                 *)
(*   check       in refreshJWKSCache, before the validity guard            *)
(*   fetch       cache.Refresh in flight (the network fetch)               *)
(*   storeKeys   before s.jwksCache = cached                               *)
(*   storeExpiry before s.cacheExpiry = time.Now().Add(1 * time.Hour)      *)
(*   parse       refreshJWKSCache returned nil, before jwt.Parse           *)
(*   respond     ValidateToken returned, Authenticate decides              *)
(*   done        response written or next handler returned                 *)
(* What the call saw (dropped when Authenticate returns):                  *)
(*   refreshed   the guard failed, so a refresh was attempted              *)
(*   sawFresh    the guard read a key set with now < cacheExpiry           *)
(*   cached      the key set this call fetched                             *)
(*   vSigOK      the signing key was in the key set jwt.Parse read         *)
(*   usedStale   cacheExpiry had passed when jwt.Parse verified            *)
(*   vLate       where the clock stood against the token's exp when        *)
(*               jwt.Parse validated: "before", "at" or "after"            *)
(***************************************************************************)
IdleReq ==
    [ pc |-> "idle", hdr |-> EmptyHeader, refreshed |-> FALSE,
      sawFresh |-> FALSE, cached |-> NoKeys, vSigOK |-> FALSE,
      usedStale |-> FALSE, vLate |-> "", res |-> NoResult,
      status |-> 0, body |-> "", nextCalls |-> 0, user |-> NoUser ]

\* The headers of the concurrent scenario: none, and an access token that
\* expires at the end of the run.
SmallHeaders ==
    { EmptyHeader, Bearer(AccessToken(<<"admin">>, MaxTime)) }

\* The headers of the single-request scenario: every token, and the
\* malformed headers.
AllHeaders ==
    { Bearer(t) : t \in AllTokens }
      \cup { EmptyHeader,
             [ scheme |-> "Basic", spaces |-> 1, tok |-> GarbageToken ],
             [ scheme |-> "Bearer", spaces |-> 0, tok |-> EmptyToken ],
             [ scheme |-> "Bearer", spaces |-> 1, tok |-> EmptyToken ],
             \* "Bearer  x": parts[1] starts with a space and is no JWT
             [ scheme |-> "Bearer", spaces |-> 2, tok |-> GarbageToken ],
             [ scheme |-> "BEARER", spaces |-> 1,
               tok |-> AccessToken(<<"user">>, MaxTime + 1) ] }

\* A request arrives in slot r carrying one of the headers hs.
Arrive(r, hs) ==
    /\ req[r].pc \in {"idle", "done"}
    /\ \E h \in hs : req' = [req EXCEPT ![r] = [IdleReq EXCEPT !.pc = "start", !.hdr = h]]
    /\ UNCHANGED <<now, jwksCache, cacheExpiry, seq, jwtSt, iamSt, gateSt,
                 itemVars>>

\* Authenticate up to the call of ValidateToken.
AuthenticateHeader(r) ==
    /\ req[r].pc = "start"
    /\ req' = [req EXCEPT ![r] =
         IF HeaderIsEmpty(req[r].hdr)
           THEN [@ EXCEPT !.pc = "done", !.status = 401, !.body = MsgMissingHeader]
         ELSE IF ~HeaderFormatOK(req[r].hdr)
           THEN [@ EXCEPT !.pc = "done", !.status = 401, !.body = MsgBadFormat]
         ELSE [@ EXCEPT !.pc = "check"]]
    /\ UNCHANGED <<now, jwksCache, cacheExpiry, seq, jwtSt, iamSt, gateSt,
                 itemVars>>

\* refreshJWKSCache: the validity guard.
CheckCache(r) ==
    /\ req[r].pc = "check"
    /\ req' = [req EXCEPT ![r] =
         IF CacheValid(jwksCache, cacheExpiry, now)
           THEN [@ EXCEPT !.pc = "parse",
                          !.sawFresh = (jwksCache # NoKeys /\ now < cacheExpiry)]
           ELSE [@ EXCEPT !.pc = "fetch", !.refreshed = TRUE,
                          !.sawFresh = (jwksCache # NoKeys /\ now < cacheExpiry)]]
    /\ UNCHANGED <<now, jwksCache, cacheExpiry, seq, jwtSt, iamSt, gateSt,
                 itemVars>>

\* cache.Register / cache.Refresh succeed.
FetchOK(r) ==
    /\ req[r].pc = "fetch"
    /\ req' = [req EXCEPT ![r] = [@ EXCEPT !.pc = "storeKeys",
                                           !.cached = FetchedKeySet(now)]]
    /\ UNCHANGED <<now, jwksCache, cacheExpiry, seq, jwtSt, iamSt, gateSt,
                 itemVars>>

\* The failure path with s.jwksCache = cached executed before the error test.
FetchFail_StoresNil(r) ==
    /\ req[r].pc = "fetch"
    /\ jwksCache' = NoKeys
    /\ req' = [req EXCEPT ![r] = [@ EXCEPT !.pc = "respond",
                 !.res = [claims |-> NilClaims, err |-> ErrRefreshFailed]]]
    /\ UNCHANGED <<now, cacheExpiry, seq, jwtSt, iamSt, gateSt,
                 itemVars>>

\* cache.Register / cache.Refresh fail: refreshJWKSCache returns the error
\* and ValidateToken wraps it.
FetchFail(r) ==
    /\ req[r].pc = "fetch"
    /\ req' = [req EXCEPT ![r] = [@ EXCEPT !.pc = "respond",
                 !.res = [claims |-> NilClaims, err |-> ErrRefreshFailed]]]
    /\ UNCHANGED <<now, jwksCache, cacheExpiry, seq, jwtSt, iamSt, gateSt,
                 itemVars>>

\* The request's context is cancelled while cache.Refresh(ctx, ...) is in
\* flight: the fetch is abandoned, Refresh returns the context's error and
\* refreshJWKSCache returns before its stores.
FetchCancelled(r) ==
    /\ req[r].pc = "fetch"
    /\ req' = [req EXCEPT ![r] = [@ EXCEPT !.pc = "respond",
                 !.res = [claims |-> NilClaims, err |-> ErrRefreshCancelled]]]
    /\ UNCHANGED <<now, jwksCache, cacheExpiry, seq, jwtSt, iamSt, gateSt,
                 itemVars>>

\* s.jwksCache = cached
StoreKeys(r) ==
    /\ req[r].pc = "storeKeys"
    /\ jwksCache' = req[r].cached
    /\ req' = [req EXCEPT ![r] = [@ EXCEPT !.pc = "storeExpiry"]]
    /\ seq' = [seq EXCEPT !.paired = FALSE]
    /\ UNCHANGED <<now, cacheExpiry, jwtSt, iamSt, gateSt,
                 itemVars>>

\* s.cacheExpiry = time.Now().Add(1 * time.Hour)
StoreExpiry(r) ==
    /\ req[r].pc = "storeExpiry"
    /\ cacheExpiry' = now + CacheTTL
    /\ req' = [req EXCEPT ![r] = [@ EXCEPT !.pc = "parse", !.cached = NoKeys]]
    /\ seq' = [seq EXCEPT !.paired = (jwksCache = req[r].cached)]
    /\ UNCHANGED <<now, jwksCache, jwtSt, iamSt, gateSt,
                 itemVars>>

\* Where the clock t stands against the instant e.
Against(t, e) == IF t < e THEN "before" ELSE IF t = e THEN "at" ELSE "after"

\* The rest of ValidateToken, against the key set s.jwksCache holds now.
ParseAndValidate(r) ==
    /\ req[r].pc = "parse"
    /\ req' = [req EXCEPT ![r] = [@ EXCEPT !.pc = "respond",
                 !.vSigOK = (req[r].hdr.tok.sigKey \in jwksCache.keys),
                 !.usedStale = ~(now < cacheExpiry),
                 !.vLate = Against(now, req[r].hdr.tok.exp),
                 !.res = ValidateAfterRefresh(req[r].hdr.tok, jwksCache, now)]]
    /\ UNCHANGED <<now, jwksCache, cacheExpiry, seq, jwtSt, iamSt, gateSt,
                 itemVars>>

\* The request once Authenticate has returned: the locals of the call are gone.
Finished(q) ==
    [ q EXCEPT !.pc = "done", !.refreshed = FALSE, !.sawFresh = FALSE,
               !.cached = NoKeys, !.vSigOK = FALSE, !.usedStale = FALSE,
               !.vLate = "" ]

\* A rejection that echoes the verifier's error to the client.
RejectionBody_EchoesError(err) == err

\* The body Authenticate sends when ValidateToken returned err: the error
\* goes to the log only.
RejectionBody(err) == MsgInvalidToken

\* Authenticate after ValidateToken returned.
Respond(r) ==
    /\ req[r].pc = "respond"
    /\ req' = [req EXCEPT ![r] =
         IF req[r].res.err # ErrNil
           THEN [Finished(@) EXCEPT !.status = 401,
                          !.body = RejectionBody(req[r].res.err)]
           ELSE [Finished(@) EXCEPT !.status = 200,
                          !.user = UserFromClaims(req[r].res.claims),
                          !.nextCalls = @ + 1]]
    /\ UNCHANGED <<now, jwksCache, cacheExpiry, seq, jwtSt, iamSt, gateSt,
                 itemVars>>

\* Time passes.
Tick ==
    /\ now < MaxTime
    /\ now' = now + 1
    /\ UNCHANGED <<jwksCache, cacheExpiry, req, seq, jwtSt, iamSt, gateSt,
                 itemVars>>

(***************************************************************************)
(* The item store after package initialisation: an empty map, nextID 1,    *)
(* an unlocked mutex, no request in flight.                                *)
(***************************************************************************)
Clients == 1..NumClients

NoItems == << >>

UnlockedMux == [ writer |-> FALSE, readers |-> 0 ]

NoBody == [ json |-> FALSE, name |-> [len |-> 0, id |-> 0],
            description |-> [len |-> 0, id |-> 0] ]

NoItemResp == [ kind |-> "none" ]

IdleItemReq ==
    [ pc |-> "idle", kind |-> "", body |-> NoBody, id |-> 0, status |-> 0,
      resp |-> NoItemResp, snapshot |-> {}, seen |-> {} ]

ItemsInit ==
    /\ items = NoItems
    /\ nextID = 1
    /\ itemsMux = UnlockedMux
    /\ itemReq = [c \in Clients |-> IdleItemReq]
    /\ created = << >>

\* Bookkeeping: whether the previous call of the single-request scenario
\* ended in a key-set failure, and whether the last store of cacheExpiry
\* was made by the call whose fetch produced the stored jwksCache.
NoSeq == [ afterFail |-> FALSE, paired |-> FALSE ]

NoJwt == [ pc |-> "off" ]
NoIam == [ pc |-> "off" ]
NoGate == [ pc |-> "off" ]

Init ==
    /\ now = 0
    /\ jwksCache = NoKeys
    /\ cacheExpiry = 0
    /\ req = [r \in Reqs |-> IdleReq]
    /\ seq = NoSeq
    /\ jwtSt = NoJwt
    /\ iamSt = NoIam
    /\ gateSt = NoGate
    /\ ItemsInit

\* Concurrent bearer requests.
Next ==
    \/ \E r \in Reqs : Arrive(r, SmallHeaders)
    \/ \E r \in Reqs : AuthenticateHeader(r)
    \/ \E r \in Reqs : CheckCache(r)
    \/ \E r \in Reqs : FetchOK(r)
    \/ \E r \in Reqs : FetchFail(r)
    \/ \E r \in Reqs : FetchCancelled(r)
    \/ \E r \in Reqs : StoreKeys(r)
    \/ \E r \in Reqs : StoreExpiry(r)
    \/ \E r \in Reqs : ParseAndValidate(r)
    \/ \E r \in Reqs : Respond(r)
    \/ Tick

Spec == Init /\ [][Next]_vars

\* One bearer request at a time, over every token.
ArriveAny ==
    /\ req[1].pc \in {"idle", "done"}
    /\ \E h \in AllHeaders :
         req' = [req EXCEPT ![1] = [IdleReq EXCEPT !.pc = "start", !.hdr = h]]
    /\ seq' = [ seq EXCEPT !.afterFail = (req[1].res.err = ErrRefreshFailed) ]
    /\ UNCHANGED <<now, jwksCache, cacheExpiry, jwtSt, iamSt, gateSt,
                 itemVars>>

NextVerify ==
    \/ ArriveAny
    \/ AuthenticateHeader(1)
    \/ CheckCache(1)
    \/ FetchOK(1)
    \/ FetchFail(1)
    \/ StoreKeys(1)
    \/ StoreExpiry(1)
    \/ ParseAndValidate(1)
    \/ Respond(1)
    \/ Tick

SpecVerify == Init /\ [][NextVerify]_vars

\* auth.GetUser on the context of request q, as a downstream handler calls it.
ErrNoUserInContext == "no user found in context"

GetUser(q) ==
    IF q.user.isNil THEN [ user |-> NoUser, err |-> ErrNoUserInContext ]
    ELSE [ user |-> q.user, err |-> ErrNil ]

\* Concurrent bearer requests of different users while the provider is
\* reachable and the clock stands still.
AttachHeaders ==
    { EmptyHeader,
      Bearer(AccessToken(<<"admin">>, MaxTime)),
      Bearer(AccessToken(<<"user">>, MaxTime)) }

NextAttach ==
    \/ \E r \in Reqs : Arrive(r, AttachHeaders)
    \/ \E r \in Reqs : AuthenticateHeader(r)
    \/ \E r \in Reqs : CheckCache(r)
    \/ \E r \in Reqs : FetchOK(r)
    \/ \E r \in Reqs : StoreKeys(r)
    \/ \E r \in Reqs : StoreExpiry(r)
    \/ \E r \in Reqs : ParseAndValidate(r)
    \/ \E r \in Reqs : Respond(r)

SpecAttach == Init /\ [][NextAttach]_vars

(***************************************************************************)
(* JWTService (internal/auth/jwt.go): HS256 tokens signed with the         *)
(* service's secret.  A token is its MapClaims (a record holding exactly   *)
(* the claims present) and whether its signature verifies under the        *)
(* secret.  Only the service can produce a verifying signature, so the     *)
(* claims of a verifying token have the types generateToken and            *)
(* generateRefreshToken wrote; a type assertion on one of them succeeds    *)
(* iff the claim is present.                                               *)
(***************************************************************************)
JwtIssuer == "aws-go-server"

\* NewJWTService(secret, accessTokenDuration, refreshTokenDuration)
AccessTokenDuration == 1 * TicksPerHour
RefreshTokenDuration == 2 * TicksPerHour

\* The users GenerateTokenPair is called for: Roles and IsAdmin are
\* independent fields of auth.User.
JwtUsers ==
    [ isNil : {FALSE}, ID : {"u1"}, Email : {"e1"}, Username : {"n1"},
      Roles : { <<>>, <<"user">>, <<"admin">> }, IsAdmin : BOOLEAN ]

\* generateJTI(): 32 random bytes, base64.
JtiValues == {"j1", "j2"}

\* generateToken
GenerateToken(user, duration, t) ==
    [ sigOK |-> TRUE,
      claims |-> [ user_id |-> user.ID, email |-> user.Email,
                   username |-> user.Username, roles |-> user.Roles,
                   is_admin |-> user.IsAdmin, iat |-> t,
                   exp |-> t + duration, iss |-> JwtIssuer ] ]

\* generateRefreshToken
GenerateRefreshToken(userID, duration, t, jti) ==
    [ sigOK |-> TRUE,
      claims |-> [ user_id |-> userID, type |-> "refresh", iat |-> t,
                   exp |-> t + duration, iss |-> JwtIssuer, jti |-> jti ] ]

\* GenerateTokenPair
GenerateTokenPair(user, t, jti) ==
    [ AccessToken |-> GenerateToken(user, AccessTokenDuration, t),
      RefreshToken |-> GenerateRefreshToken(user.ID, RefreshTokenDuration, t, jti),
      ExpiresAt |-> t + AccessTokenDuration,
      TokenType |-> "Bearer" ]

\* claims[name], or the zero value d when the claim is absent.
ClaimOr(c, name, d) == IF name \in DOMAIN c THEN c[name] ELSE d

\* JWTService.ValidateToken at time t.  jwt.Parse checks the signature and
\* then exp (valid while t < exp); a bad signature is not ErrTokenExpired.
JwtValidateToken(tok, t) ==
    LET c == tok.claims IN
    IF ~tok.sigOK
      THEN [ claims |-> NilClaims, err |-> ErrInvalidToken ]
    ELSE IF "exp" \in DOMAIN c /\ ~(t < c.exp)
      THEN [ claims |-> NilClaims, err |-> ErrExpiredToken ]
    ELSE IF "user_id" \notin DOMAIN c
      THEN [ claims |-> NilClaims, err |-> ErrInvalidToken ]
    ELSE [ claims |->
             [ isNil |-> FALSE, UserID |-> c.user_id,
               Email |-> ClaimOr(c, "email", ""),
               Username |-> ClaimOr(c, "username", ""),
               Roles |-> ClaimOr(c, "roles", <<>>),
               IsAdmin |-> ClaimOr(c, "is_admin", FALSE),
               IssuedAt |-> ClaimOr(c, "iat", 0),
               ExpiresAt |-> ClaimOr(c, "exp", 0) ],
           err |-> ErrNil ]

\* The same token with a signature that does not verify.
Tampered(tok) == [ tok EXCEPT !.sigOK = FALSE ]

JwtIdle ==
    [ pc |-> "issue", user |-> NoUser, tok |-> [sigOK |-> FALSE, claims |-> <<>>],
      kind |-> "", res |-> NoResult, late |-> "" ]

\* GenerateTokenPair for some user, then one of the pair (as issued or
\* tampered with) is chosen for presentation.
JwtIssue ==
    /\ jwtSt.pc = "issue"
    /\ \E u \in JwtUsers, j \in JtiValues, k \in {"access", "refresh"}, ok \in BOOLEAN :
         LET pair == GenerateTokenPair(u, now, j)
             t == IF k = "access" THEN pair.AccessToken ELSE pair.RefreshToken
         IN jwtSt' = [ JwtIdle EXCEPT !.pc = "issued", !.user = u, !.kind = k,
                                      !.tok = IF ok THEN t ELSE Tampered(t) ]
    /\ UNCHANGED <<now, jwksCache, cacheExpiry, req, seq, iamSt, gateSt,
                 itemVars>>

\* The chosen token is presented to JWTService.ValidateToken.
JwtValidate ==
    /\ jwtSt.pc = "issued"
    /\ jwtSt' = [ jwtSt EXCEPT !.pc = "validated",
                               !.res = JwtValidateToken(jwtSt.tok, now),
                               !.late = Against(now, jwtSt.tok.claims.exp) ]
    /\ UNCHANGED <<now, jwksCache, cacheExpiry, req, seq, iamSt, gateSt,
                 itemVars>>

\* The next pair is issued.
JwtAgain ==
    /\ jwtSt.pc = "validated"
    /\ jwtSt' = JwtIdle
    /\ UNCHANGED <<now, jwksCache, cacheExpiry, req, seq, iamSt, gateSt,
                 itemVars>>

InitJWT ==
    /\ now = 0
    /\ jwksCache = NoKeys
    /\ cacheExpiry = 0
    /\ req = [r \in Reqs |-> IdleReq]
    /\ seq = NoSeq
    /\ jwtSt = JwtIdle
    /\ iamSt = NoIam
    /\ gateSt = NoGate
    /\ ItemsInit

NextJWT == JwtIssue \/ JwtValidate \/ JwtAgain \/ Tick

SpecJWT == InitJWT /\ [][NextJWT]_vars

(***************************************************************************)
(* The signature middleware (internal/aws/auth.go).                        *)
(*                                                                         *)
(* A string whose content the code never inspects is a record [len, id]:   *)
(* its length and a number standing for its content.  The Authorization    *)
(* header is the text before the first space (tag) followed by the parts   *)
(* that strings.Split(..., ", ") yields, each a key ("Credential=", ...)   *)
(* and a value.  Clock and timestamps count minutes.                       *)
(***************************************************************************)
IamMaxTime == 17
HashMod == 5

\* 15*time.Minute
ReplayWindow == 15

\* signature[:16]
SignatureLogPrefix == 16

\* hex.EncodeToString of a 32-byte MAC
HexMacLen == 64

AlgorithmTag == "AWS4-HMAC-SHA256"

Str(n, i) == [ len |-> n, id |-> i ]
EmptyStr == Str(0, 0)

\* hmacSHA256(key, data) on numbers standing for byte strings.
HmacSHA256(key, data) == (key * 31 + data * 17 + 7) % HashMod

\* The numbers standing for the fixed strings of the key derivation.
CodeAWS4 == 3
CodeAws4Request == 4

\* ComputeSignature: kDate, kRegion, kService, kSigning, then the MAC of the
\* string to sign, hex-encoded.
ComputeSignature(secretKey, dateStamp, region, service, stringToSign) ==
    LET kDate == HmacSHA256(CodeAWS4 + secretKey, dateStamp)
        kRegion == HmacSHA256(kDate, region)
        kService == HmacSHA256(kRegion, service)
        kSigning == HmacSHA256(kService, CodeAws4Request)
    IN Str(HexMacLen, HmacSHA256(kSigning, stringToSign))

\* strings.HasPrefix(authHeader, "AWS4-HMAC-SHA256") on the tags of the model.
HasAlgorithmPrefix(tag) == tag \in { AlgorithmTag, "AWS4-HMAC-SHA256-V2" }

\* The value of the last part with key k, or "" when no part has it.
PartValue(parts, k) ==
    LET idx == { i \in 1..Len(parts) : parts[i].k = k } IN
    IF idx = {} THEN EmptyStr
    ELSE parts[CHOOSE i \in idx : \A j \in idx : j <= i].v

\* parseAuthHeader that does not require a signature.
ParseAuthHeader_SignatureOptional(h) ==
    LET credential == PartValue(h.parts, "Credential=")
        signedHeaders == PartValue(h.parts, "SignedHeaders=")
        signature == PartValue(h.parts, "Signature=")
    IN IF credential = EmptyStr \/ signedHeaders = EmptyStr
         THEN [ err |-> TRUE, credential |-> EmptyStr,
                signedHeaders |-> EmptyStr, signature |-> EmptyStr ]
         ELSE [ err |-> FALSE, credential |-> credential,
                signedHeaders |-> signedHeaders, signature |-> signature ]

\* parseAuthHeader: strings.TrimPrefix removes exactly "AWS4-HMAC-SHA256 ";
\* with any other tag the tag stays glued to the first part, whose key is
\* then not recognised.
ParseAuthHeader(h) ==
    LET parts == IF h.tag = AlgorithmTag THEN h.parts
                 ELSE IF h.parts = <<>> THEN <<>>
                 ELSE <<[k |-> "?", v |-> h.parts[1].v]>> \o Tail(h.parts)
        credential == PartValue(parts, "Credential=")
        signedHeaders == PartValue(parts, "SignedHeaders=")
        signature == PartValue(parts, "Signature=")
    IN IF credential = EmptyStr \/ signedHeaders = EmptyStr \/ signature = EmptyStr
         THEN [ err |-> TRUE, credential |-> EmptyStr,
                signedHeaders |-> EmptyStr, signature |-> EmptyStr ]
         ELSE [ err |-> FALSE, credential |-> credential,
                signedHeaders |-> signedHeaders, signature |-> signature ]

\* The bodies handed to http.Error.
IamMsgMissing == "{\"error\":\"Missing AWS Authorization header\"}"
IamMsgScheme == "{\"error\":\"Invalid authorization scheme. Expected AWS4-HMAC-SHA256\"}"
IamMsgFormat == "{\"error\":\"Invalid Authorization header format\"}"
IamMsgNoDate == "{\"error\":\"Missing X-Amz-Date header\"}"
IamMsgBadDate == "{\"error\":\"Invalid X-Amz-Date format\"}"
IamMsgTooOld == "{\"error\":\"Request timestamp too old\"}"

IamOut(status, body, nextCalls, panicked) ==
    [ status |-> status, body |-> body, nextCalls |-> nextCalls,
      panicked |-> panicked ]

\* The handler NewIAMAuthMiddleware returns, on request q at minute t.
\* q.present tells whether the Authorization header is non-empty.
\* time.Since(timestamp) >= 15*time.Minute, the window closed one minute early.
TimestampTooOld_AtWindow(ts, t) == t - ts >= ReplayWindow

\* time.Since(timestamp) > 15*time.Minute, with ts and t in minutes.
TimestampTooOld(ts, t) == t - ts > ReplayWindow

IAMAuthMiddleware(q, t) ==
    LET parsed == ParseAuthHeader(q.auth) IN
    IF ~q.present THEN IamOut(401, IamMsgMissing, 0, FALSE)
    ELSE IF ~HasAlgorithmPrefix(q.auth.tag) THEN IamOut(401, IamMsgScheme, 0, FALSE)
    ELSE IF parsed.err THEN IamOut(401, IamMsgFormat, 0, FALSE)
    ELSE IF q.date.kind = "missing" THEN IamOut(401, IamMsgNoDate, 0, FALSE)
    ELSE IF q.date.kind # "ok" THEN IamOut(401, IamMsgBadDate, 0, FALSE)
    ELSE IF TimestampTooOld(q.date.ts, t) THEN IamOut(401, IamMsgTooOld, 0, FALSE)
    ELSE IF parsed.signature.len < SignatureLogPrefix
      THEN IamOut(0, "", 0, TRUE)          \* signature[:16] out of range
    ELSE IamOut(200, "", 1, FALSE)

(***************************************************************************)
(* Signed requests.  The client signs the canonical request (canon) with   *)
(* one of Secrets; the server is configured with one of them.  Secrets,    *)
(* region, service and canonical requests are numbers standing for their   *)
(* byte strings.                                                           *)
(***************************************************************************)
Secrets == {1, 2}
IamConfig == [ region |-> 1, service |-> 2 ]

\* The date stamp (yyyymmdd) of a timestamp: the model's minutes all fall
\* on one day.
DateStamp(ts) == 1

\* The signature the scheme expects for request q under the secret.
ExpectedSignature(secret, q) ==
    ComputeSignature(secret, DateStamp(q.date.ts), IamConfig.region,
                     IamConfig.service, q.canon)

Part(k, v) == [ k |-> k, v |-> v ]

\* The signatures a client sends for a canonical request: the MAC under
\* each secret, and two strings that are no full MAC.
SignatureValues(canon) ==
    { ComputeSignature(s, DateStamp(0), IamConfig.region, IamConfig.service, canon) :
        s \in Secrets }
      \cup { Str(SignatureLogPrefix, 0),               \* 16 characters
             Str(SignatureLogPrefix - 1, 0) }          \* 15 characters

AuthHeaders(canon) ==
    { [ tag |-> AlgorithmTag,
        parts |-> << Part("Credential=", Str(8, 1)),
                     Part("SignedHeaders=", Str(8, 2)),
                     Part("Signature=", sg) >> ] : sg \in SignatureValues(canon) }
    \cup
    { [ tag |-> AlgorithmTag,
        parts |-> << Part("Credential=", Str(8, 1)),
                     Part("SignedHeaders=", Str(8, 2)) >> ],
      [ tag |-> AlgorithmTag,
        parts |-> << Part("Credential=", Str(8, 1)),
                     Part("SignedHeaders=", Str(8, 2)),
                     Part("Signature=", EmptyStr) >> ],
      [ tag |-> "AWS4-HMAC-SHA256-V2",
        parts |-> << Part("Credential=", Str(8, 1)),
                     Part("SignedHeaders=", Str(8, 2)),
                     Part("Signature=", Str(HexMacLen, 0)) >> ],
      [ tag |-> "Bearer", parts |-> << Part("?", Str(8, 3)) >> ] }

DateHeaders ==
    { [ kind |-> "missing", ts |-> 0 ], [ kind |-> "garbage", ts |-> 0 ] }
      \cup [ kind : {"ok"}, ts : {0, 1, IamMaxTime} ]

IamRequests ==
    { [ present |-> TRUE, auth |-> a, date |-> d, canon |-> c ] :
        c \in {1, 2}, d \in DateHeaders, a \in AuthHeaders(1) \cup AuthHeaders(2) }
    \cup
    { [ present |-> FALSE, auth |-> [ tag |-> "", parts |-> <<>> ],
        date |-> d, canon |-> 1 ] : d \in DateHeaders }

NoIamOut == IamOut(0, "", 0, FALSE)

\* The middleware serves the request at the current minute.
IamServe ==
    /\ iamSt.pc = "pending"
    /\ LET out == IAMAuthMiddleware(iamSt.q, iamSt.t) IN
         iamSt' = [ iamSt EXCEPT !.pc = "served", !.out = out,
                                 !.accepted = @ \/ out.nextCalls = 1 ]
    /\ UNCHANGED <<now, jwksCache, cacheExpiry, req, seq, jwtSt, gateSt,
                 itemVars>>

\* A minute passes and the same request is sent again.
IamReplay ==
    /\ iamSt.pc = "served"
    /\ iamSt.t < IamMaxTime
    /\ iamSt' = [ iamSt EXCEPT !.pc = "pending", !.t = @ + 1, !.out = NoIamOut ]
    /\ UNCHANGED <<now, jwksCache, cacheExpiry, req, seq, jwtSt, gateSt,
                 itemVars>>

InitIAM ==
    /\ now = 0
    /\ jwksCache = NoKeys
    /\ cacheExpiry = 0
    /\ req = [r \in Reqs |-> IdleReq]
    /\ seq = NoSeq
    /\ jwtSt = NoJwt
    /\ gateSt = NoGate
    /\ ItemsInit
    /\ \E q \in IamRequests, k \in Secrets :
         iamSt = [ pc |-> "pending", secret |-> k, q |-> q, t |-> 0,
                   out |-> NoIamOut, accepted |-> FALSE ]

NextIAM == IamServe \/ IamReplay

SpecIAM == InitIAM /\ [][NextIAM]_vars

(***************************************************************************)
(* Authorization (internal/auth: roles, permissions, User.HasPermission,   *)
(* User.HasAnyRole).                                                       *)
(***************************************************************************)
MaxRoles == 2

PermissionReadItems == "items:read"
PermissionWriteItems == "items:write"
PermissionDeleteItems == "items:delete"
PermissionAWSRead == "aws:read"
PermissionAWSWrite == "aws:write"
PermissionAdmin == "admin:*"

RoleUser == [ Name |-> "user", Permissions |-> << PermissionReadItems >> ]

RoleEditor ==
    [ Name |-> "editor",
      Permissions |-> << PermissionReadItems, PermissionWriteItems >> ]

RoleAdmin ==
    [ Name |-> "admin",
      Permissions |-> << PermissionReadItems, PermissionWriteItems,
                         PermissionDeleteItems, PermissionAWSRead,
                         PermissionAWSWrite, PermissionAdmin >> ]

\* The default branch returning the permissions of RoleUser.
GetRolePermissions_DefaultUser(roleName) ==
    CASE roleName = "admin"  -> RoleAdmin.Permissions
      [] roleName = "editor" -> RoleEditor.Permissions
      [] OTHER               -> RoleUser.Permissions

\* GetRolePermissions: the switch on the role name.
GetRolePermissions(roleName) ==
    CASE roleName = "admin"  -> RoleAdmin.Permissions
      [] roleName = "editor" -> RoleEditor.Permissions
      [] roleName = "user"   -> RoleUser.Permissions
      [] OTHER               -> << >>

\* The inner loop of HasPermission over one role's permissions.
RoleGrants(permissions, perm) ==
    \E i \in 1..Len(permissions) :
       permissions[i] = perm \/ permissions[i] = PermissionAdmin

\* HasPermission judging by the last role only.
HasPermission_LastRoleOnly(u, perm) ==
    \/ u.IsAdmin
    \/ /\ Len(u.Roles) > 0
       /\ RoleGrants(GetRolePermissions(u.Roles[Len(u.Roles)]), perm)

\* User.HasPermission
HasPermission(u, perm) ==
    IF u.IsAdmin THEN TRUE
    ELSE \E i \in 1..Len(u.Roles) :
            RoleGrants(GetRolePermissions(u.Roles[i]), perm)

\* HasAnyRole with isAdmin matching every required role.
HasAnyRole_AdminMatchesAll(u, roles) ==
    \/ u.IsAdmin /\ Len(roles) > 0
    \/ \E i \in 1..Len(u.Roles) : \E j \in 1..Len(roles) : u.Roles[i] = roles[j]

\* User.HasAnyRole
HasAnyRole(u, roles) ==
    \E i \in 1..Len(u.Roles) : \E j \in 1..Len(roles) : u.Roles[i] = roles[j]

(***************************************************************************)
(* The authorization scenario: a user, a permission and a list of required *)
(* roles are chosen; the two predicates are asked; then a role is appended *)
(* to the user's roles and they are asked again.                           *)
(***************************************************************************)
RoleNames == { "user", "editor", "admin", "guest", "Admin" }

SeqsUpTo(S, n) == UNION { [1..k -> S] : k \in 0..n }

GateUsers ==
    [ isNil : {FALSE}, ID : {"u1"}, Email : {"e1"}, Username : {"n1"},
      Roles : SeqsUpTo(RoleNames, MaxRoles), IsAdmin : BOOLEAN ]

GatePermissions ==
    { PermissionReadItems, PermissionWriteItems, PermissionDeleteItems,
      PermissionAWSRead, PermissionAWSWrite, PermissionAdmin, "billing:read" }

RequiredRoles ==
    { << >>, <<"admin">>, <<"editor", "admin">>, <<"guest">> }

\* What a gate does: the status and body it writes (200 and "" when it writes
\* nothing itself) and how often it calls the next handler.
GateOut(status, body, nextCalls) ==
    [ status |-> status, body |-> body, nextCalls |-> nextCalls ]

NoGateOut == GateOut(0, "", 0)

\* The permission gate that only requires a user.
RequirePermission_AnyUser(permission, q) ==
    LET got == GetUser(q) IN
    IF got.err # ErrNil THEN GateOut(401, "Unauthorized", 0)
    ELSE GateOut(200, "", 1)

\* RequirePermission(permission) on a request with context q.
RequirePermission(permission, q) ==
    LET got == GetUser(q) IN
    IF got.err # ErrNil THEN GateOut(401, "Unauthorized", 0)
    ELSE IF ~HasPermission(got.user, permission)
      THEN GateOut(403, "Forbidden: insufficient permissions", 0)
    ELSE GateOut(200, "", 1)

\* The role gate answering 401 to a user without the role.
RequireRole_Always401(roles, q) ==
    LET got == GetUser(q) IN
    IF got.err # ErrNil THEN GateOut(401, "Unauthorized", 0)
    ELSE IF ~HasAnyRole(got.user, roles) THEN GateOut(401, "Unauthorized", 0)
    ELSE GateOut(200, "", 1)

\* RequireRole(roles...) on a request with context q.
RequireRole(roles, q) ==
    LET got == GetUser(q) IN
    IF got.err # ErrNil THEN GateOut(401, "Unauthorized", 0)
    ELSE IF ~HasAnyRole(got.user, roles)
      THEN GateOut(403, "Forbidden: insufficient role", 0)
    ELSE GateOut(200, "", 1)

\* RequireAdmin on a request with context q.
RequireAdmin(q) ==
    LET got == GetUser(q) IN
    IF got.err # ErrNil THEN GateOut(401, "Unauthorized", 0)
    ELSE IF ~got.user.IsAdmin
      THEN GateOut(403, "Forbidden: admin access required", 0)
    ELSE GateOut(200, "", 1)

\* A request whose context holds gateSt.user (or no user) reaches a gate.
PermissionGate ==
    /\ gateSt.pc = "ready"
    /\ gateSt' = [ gateSt EXCEPT !.pc = "served", !.gate = "permission",
                                 !.out = RequirePermission(gateSt.perm, gateSt) ]
    /\ UNCHANGED <<now, jwksCache, cacheExpiry, req, seq, jwtSt, iamSt,
                 itemVars>>

RoleGate ==
    /\ gateSt.pc = "ready"
    /\ gateSt' = [ gateSt EXCEPT !.pc = "served", !.gate = "role",
                                 !.out = RequireRole(gateSt.required, gateSt) ]
    /\ UNCHANGED <<now, jwksCache, cacheExpiry, req, seq, jwtSt, iamSt,
                 itemVars>>

AdminGate ==
    /\ gateSt.pc = "ready"
    /\ gateSt' = [ gateSt EXCEPT !.pc = "served", !.gate = "admin",
                                 !.out = RequireAdmin(gateSt) ]
    /\ UNCHANGED <<now, jwksCache, cacheExpiry, req, seq, jwtSt, iamSt,
                 itemVars>>

\* The two predicates are asked about the user.
Ask ==
    /\ gateSt.pc = "ready"
    /\ ~gateSt.user.isNil
    /\ gateSt' = [ gateSt EXCEPT
                     !.pc = "asked",
                     !.hasPerm = HasPermission(gateSt.user, gateSt.perm),
                     !.hasRole = HasAnyRole(gateSt.user, gateSt.required) ]
    /\ UNCHANGED <<now, jwksCache, cacheExpiry, req, seq, jwtSt, iamSt,
                 itemVars>>

\* A role is appended to the user's roles and the predicates are asked again.
GrantRole ==
    /\ gateSt.pc = "asked"
    /\ \E r \in RoleNames :
         LET u == [ gateSt.user EXCEPT !.Roles = Append(@, r) ] IN
         gateSt' = [ gateSt EXCEPT
                       !.pc = "grown", !.user = u, !.added = r,
                       !.hadPerm = gateSt.hasPerm,
                       !.hasPerm = HasPermission(u, gateSt.perm),
                       !.hasRole = HasAnyRole(u, gateSt.required) ]
    /\ UNCHANGED <<now, jwksCache, cacheExpiry, req, seq, jwtSt, iamSt,
                 itemVars>>

InitAuthz ==
    /\ now = 0
    /\ jwksCache = NoKeys
    /\ cacheExpiry = 0
    /\ req = [r \in Reqs |-> IdleReq]
    /\ seq = NoSeq
    /\ jwtSt = NoJwt
    /\ iamSt = NoIam
    /\ ItemsInit
    /\ \E u \in GateUsers \cup {NoUser}, p \in GatePermissions, rs \in RequiredRoles :
         gateSt = [ pc |-> "ready", user |-> u, perm |-> p, required |-> rs,
                    hasPerm |-> FALSE, hasRole |-> FALSE, added |-> "",
                    hadPerm |-> FALSE, gate |-> "", out |-> NoGateOut ]

NextAuthz == Ask \/ GrantRole \/ PermissionGate \/ RoleGate \/ AdminGate

SpecAuthz == InitAuthz /\ [][NextAuthz]_vars

(***************************************************************************)
(* A gated route: Authenticate, then one gate, then the handler.  One      *)
(* request at a time, the provider reachable, tokens that do not expire    *)
(* during the run.                                                         *)
(***************************************************************************)
RouteGroups ==
    { << >>, <<"user">>, <<"editor">>, <<"admin">>, <<"guest">>, <<"Admin">>,
      <<"editor", "admin">> }

RouteHeaders ==
    { Bearer(AccessToken(g, MaxTime + 1)) : g \in RouteGroups }
      \cup { EmptyHeader }

RouteIdle == [ pc |-> "route", gate |-> "", perm |-> "", out |-> NoGateOut ]

\* A request arrives at the route.
ArriveRoute ==
    /\ req[1].pc \in {"idle", "done"}
    /\ \E h \in RouteHeaders :
         req' = [req EXCEPT ![1] = [IdleReq EXCEPT !.pc = "start", !.hdr = h]]
    /\ gateSt' = RouteIdle
    /\ UNCHANGED <<now, jwksCache, cacheExpiry, seq, jwtSt, iamSt,
                 itemVars>>

\* next.ServeHTTP of Authenticate is RequirePermission(perm) of the route.
RoutePermission ==
    /\ req[1].pc = "done" /\ req[1].nextCalls = 1
    /\ gateSt.pc = "route"
    /\ \E p \in GatePermissions :
         gateSt' = [ pc |-> "served", gate |-> "permission", perm |-> p,
                     out |-> RequirePermission(p, req[1]) ]
    /\ UNCHANGED <<now, jwksCache, cacheExpiry, req, seq, jwtSt, iamSt,
                 itemVars>>

\* next.ServeHTTP of Authenticate is RequireAdmin of the route.
RouteAdmin ==
    /\ req[1].pc = "done" /\ req[1].nextCalls = 1
    /\ gateSt.pc = "route"
    /\ gateSt' = [ pc |-> "served", gate |-> "admin", perm |-> "",
                   out |-> RequireAdmin(req[1]) ]
    /\ UNCHANGED <<now, jwksCache, cacheExpiry, req, seq, jwtSt, iamSt,
                 itemVars>>

InitRoute ==
    /\ now = 0
    /\ jwksCache = NoKeys
    /\ cacheExpiry = 0
    /\ req = [r \in Reqs |-> IdleReq]
    /\ seq = NoSeq
    /\ jwtSt = NoJwt
    /\ iamSt = NoIam
    /\ gateSt = RouteIdle
    /\ ItemsInit

NextRoute ==
    \/ ArriveRoute
    \/ AuthenticateHeader(1)
    \/ CheckCache(1)
    \/ FetchOK(1)
    \/ StoreKeys(1)
    \/ StoreExpiry(1)
    \/ ParseAndValidate(1)
    \/ Respond(1)
    \/ RoutePermission
    \/ RouteAdmin

SpecRoute == InitRoute /\ [][NextRoute]_vars

(***************************************************************************)
(* The items handlers: HandleItemsCreate and HandleItemsGet over the       *)
(* package-level items map, nextID and itemsMux.  Strings are Str(len, id).*)
(***************************************************************************)
MaxNameLen == 100
MaxDescriptionLen == 500

Body(name, description) ==
    [ json |-> TRUE, name |-> name, description |-> description ]

\* Request bodies: two that are valid, one that is no JSON, and one for
\* each rule of Valid; a missing "name" decodes to the empty string.
CreateBodies ==
    { Body(Str(1, 1), EmptyStr),
      Body(Str(MaxNameLen, 2), Str(MaxDescriptionLen, 1)),
      Body(EmptyStr, Str(4, 1)),
      Body(Str(MaxNameLen + 1, 1), EmptyStr),
      Body(Str(1, 1), Str(MaxDescriptionLen + 1, 1)),
      [ NoBody EXCEPT !.name = Str(3, 9) ] }

\* Valid without the upper limit on the name.
Valid_NoNameLimit(r) ==
    (IF r.name = EmptyStr THEN {"name"} ELSE {})
      \cup (IF r.description.len > MaxDescriptionLen THEN {"description"} ELSE {})

\* CreateItemRequest.Valid: the keys of the problems map.
Valid(r) ==
    (IF r.name = EmptyStr \/ r.name.len > MaxNameLen THEN {"name"} ELSE {})
      \cup (IF r.description.len > MaxDescriptionLen THEN {"description"} ELSE {})

\* decodeValid[CreateItemRequest]: a decode error has no problems.
DecodeValid(body) ==
    IF ~body.json THEN [ err |-> "decode", problems |-> {} ]
    ELSE IF Valid(body) # {} THEN [ err |-> "validation failed", problems |-> Valid(body) ]
    ELSE [ err |-> "", problems |-> {} ]

Item(id, name, description) ==
    [ ID |-> id, Name |-> name, Description |-> description ]

\* items[id] = item
PutItem(m, id, item) ==
    [ i \in (DOMAIN m) \cup {id} |-> IF i = id THEN item ELSE m[i] ]

\* A write lock that excludes nobody.
CanLock_NotExclusive(mux) == TRUE

\* itemsMux.Lock() returns: no writer and no reader holds the mutex.
CanLock(mux) == ~mux.writer /\ mux.readers = 0

\* itemsMux.RLock() returns: no writer holds the mutex.
CanRLock(mux) == ~mux.writer

\* Creates that have arrived and are not yet answered.
InFlightCreates ==
    Cardinality({ c \in Clients :
        itemReq[c].pc \notin {"idle", "done"} /\ itemReq[c].kind = "create" })

\* The ids of the creates answered 201 so far.
CreatedIDs == { created[i].ID : i \in 1..Len(created) }

\* POST /api/v1/items arrives.
ItemsCreateArrive(c) ==
    /\ itemReq[c].pc \in {"idle", "done"}
    /\ nextID + InFlightCreates <= MaxCreates
    /\ \E b \in CreateBodies :
         itemReq' = [itemReq EXCEPT ![c] =
            [IdleItemReq EXCEPT !.pc = "decode", !.kind = "create", !.body = b]]
    /\ UNCHANGED <<authVars, items, nextID, itemsMux, created>>

\* GET /api/v1/items arrives.
ItemsGetArrive(c) ==
    /\ itemReq[c].pc \in {"idle", "done"}
    /\ itemReq' = [itemReq EXCEPT ![c] =
          [IdleItemReq EXCEPT !.pc = "rlock", !.kind = "list", !.seen = CreatedIDs]]
    /\ UNCHANGED <<authVars, items, nextID, itemsMux, created>>

\* decodeValid and the two 400 answers of HandleItemsCreate.
CreateDecode(c) ==
    /\ itemReq[c].pc = "decode"
    /\ LET r == DecodeValid(itemReq[c].body) IN
       itemReq' = [itemReq EXCEPT ![c] =
          IF r.err # "" /\ r.problems # {}
            THEN [@ EXCEPT !.pc = "done", !.status = 400,
                     !.resp = [ kind |-> "json", error |-> "validation failed",
                                problems |-> r.problems ]]
          ELSE IF r.err # ""
            THEN [@ EXCEPT !.pc = "done", !.status = 400,
                     !.resp = [ kind |-> "text", text |-> "Bad Request" ]]
          ELSE [@ EXCEPT !.pc = "lock"]]
    /\ UNCHANGED <<authVars, items, nextID, itemsMux, created>>

\* itemsMux.Lock()
CreateLock(c) ==
    /\ itemReq[c].pc = "lock"
    /\ CanLock(itemsMux)
    /\ itemsMux' = [itemsMux EXCEPT !.writer = TRUE]
    /\ itemReq' = [itemReq EXCEPT ![c].pc = "readID"]
    /\ UNCHANGED <<authVars, items, nextID, created>>

\* id := nextID
CreateReadID(c) ==
    /\ itemReq[c].pc = "readID"
    /\ itemReq' = [itemReq EXCEPT ![c].pc = "incr", ![c].id = nextID]
    /\ UNCHANGED <<authVars, items, nextID, itemsMux, created>>

\* nextID++
CreateIncr(c) ==
    /\ itemReq[c].pc = "incr"
    /\ nextID' = nextID + 1
    /\ itemReq' = [itemReq EXCEPT ![c].pc = "store"]
    /\ UNCHANGED <<authVars, items, itemsMux, created>>

\* items[id] = item
CreateStore(c) ==
    /\ itemReq[c].pc = "store"
    /\ LET q == itemReq[c] IN
       items' = PutItem(items, q.id, Item(q.id, q.body.name, q.body.description))
    /\ itemReq' = [itemReq EXCEPT ![c].pc = "unlock"]
    /\ UNCHANGED <<authVars, nextID, itemsMux, created>>

\* itemsMux.Unlock()
CreateUnlock(c) ==
    /\ itemReq[c].pc = "unlock"
    /\ itemsMux' = [itemsMux EXCEPT !.writer = FALSE]
    /\ itemReq' = [itemReq EXCEPT ![c].pc = "respond"]
    /\ UNCHANGED <<authVars, items, nextID, created>>

\* encode(w, r, http.StatusCreated, resp): WriteHeader(201) comes first, so
\* the status is 201 whether or not the body can be written.
CreateRespond(c) ==
    /\ itemReq[c].pc = "respond"
    /\ itemReq[c].kind = "create"
    /\ LET q == itemReq[c]
           resp == Item(q.id, q.body.name, q.body.description)
       IN /\ itemReq' = [itemReq EXCEPT ![c] =
                [@ EXCEPT !.pc = "done", !.status = 201,
                          !.resp = [ kind |-> "item", item |-> resp ]]]
          /\ created' = Append(created, resp)
    /\ UNCHANGED <<authVars, items, nextID, itemsMux>>

\* itemsMux.RLock()
GetRLock(c) ==
    /\ itemReq[c].pc = "rlock"
    /\ CanRLock(itemsMux)
    /\ itemsMux' = [itemsMux EXCEPT !.readers = @ + 1]
    /\ itemReq' = [itemReq EXCEPT ![c].pc = "copy"]
    /\ UNCHANGED <<authVars, items, nextID, created>>

\* The loop that copies the map into itemsList.
GetCopy(c) ==
    /\ itemReq[c].pc = "copy"
    /\ itemReq' = [itemReq EXCEPT ![c].pc = "runlock",
                                  ![c].snapshot = { items[i] : i \in DOMAIN items }]
    /\ UNCHANGED <<authVars, items, nextID, itemsMux, created>>

\* itemsMux.RUnlock()
GetRUnlock(c) ==
    /\ itemReq[c].pc = "runlock"
    /\ itemsMux' = [itemsMux EXCEPT !.readers = @ - 1]
    /\ itemReq' = [itemReq EXCEPT ![c].pc = "respond"]
    /\ UNCHANGED <<authVars, items, nextID, created>>

\* encode(w, r, http.StatusOK, itemsList)
GetRespond(c) ==
    /\ itemReq[c].pc = "respond"
    /\ itemReq[c].kind = "list"
    /\ itemReq' = [itemReq EXCEPT ![c] =
          [@ EXCEPT !.pc = "done", !.status = 200,
                    !.resp = [ kind |-> "list", list |-> itemReq[c].snapshot ],
                    !.snapshot = {}]]
    /\ UNCHANGED <<authVars, items, nextID, itemsMux, created>>

InitItems ==
    /\ now = 0
    /\ jwksCache = NoKeys
    /\ cacheExpiry = 0
    /\ req = [r \in Reqs |-> IdleReq]
    /\ seq = NoSeq
    /\ jwtSt = NoJwt
    /\ iamSt = NoIam
    /\ gateSt = NoGate
    /\ ItemsInit

NextItems ==
    \E c \in Clients :
       \/ ItemsCreateArrive(c)
       \/ ItemsGetArrive(c)
       \/ CreateDecode(c)
       \/ CreateLock(c)
       \/ CreateReadID(c)
       \/ CreateIncr(c)
       \/ CreateStore(c)
       \/ CreateUnlock(c)
       \/ CreateRespond(c)
       \/ GetRLock(c)
       \/ GetCopy(c)
       \/ GetRUnlock(c)
       \/ GetRespond(c)

SpecItems == InitItems /\ [][NextItems]_vars

(***************************************************************************)
(* Properties of the Cognito verifier and its key-set cache                *)
(***************************************************************************)
\* A call is inside the refresh from the start of its fetch to its last store.
InRefresh(r) == req[r].pc \in {"fetch", "storeKeys", "storeExpiry"}

\* ValidateToken of request r has returned after running jwt.Parse.
Verified(r) ==
    /\ req[r].pc = "respond"
    /\ req[r].res.err \notin {ErrRefreshFailed, ErrRefreshCancelled}

\* C1: concurrent ValidateToken calls on an empty or expired cache perform
\* at most one key-set fetch at a time: the refresh is mutually exclusive.
C1_SingleFlight == Cardinality({ r \in Reqs : InRefresh(r) }) <= 1

\* C3: ValidateToken returns non-nil Claims only when signature, issuer,
\* token_use = "access" and expiry all succeeded for that token; whenever one
\* of them fails it returns an error and nil Claims.
C3_ClaimsOnlyAfterAllChecks ==
    \A r \in Reqs :
      req[r].pc = "respond" =>
        LET q == req[r]
            tok == q.hdr.tok
            allOK == /\ tok.form = "jwt"
                     /\ q.vSigOK
                     /\ tok.iss = ExpectedIssuer
                     /\ tok.use = <<"access">>
                     /\ q.vLate = "before"
        IN /\ (~q.res.claims.isNil => allOK /\ q.res.err = ErrNil)
           /\ (~allOK => q.res.claims.isNil /\ q.res.err # ErrNil)
           /\ (q.res.err # ErrNil => q.res.claims.isNil)

\* ValidateToken returned Claims.
C3_Witness ==
    \E r \in Reqs : req[r].pc = "respond" /\ ~req[r].res.claims.isNil

\* C4 (as claimed): whenever ValidateToken verifies a token against the cached
\* key set at time now, either now < validUntil or the call attempted a refresh.
C4_NeverStaleAtVerification ==
    \A r \in Reqs : Verified(r) => (req[r].refreshed \/ ~req[r].usedStale)

\* C4 (amended): whenever ValidateToken verifies a token against the cached
\* key set, either the call's own freshness guard read a key set with
\* now < validUntil, or the call attempted a refresh before verifying.
C4_FreshAtGuardOrRefreshed ==
    \A r \in Reqs : Verified(r) => (req[r].refreshed \/ req[r].sawFresh)

\* A call that passed the guard on a fresh cache and verified after the
\* cache's expiry had passed.
C4_Witness ==
    \E r \in Reqs :
      /\ Verified(r)
      /\ ~req[r].refreshed
      /\ req[r].sawFresh
      /\ req[r].vSigOK
      /\ req[r].usedStale

\* C5: for every correctly signed token with expiresAt < now, ValidateToken
\* returns ErrExpiredToken, an error distinct from ErrInvalidToken.
C5_ExpiredGivesExpiredToken ==
    /\ ErrExpiredToken # ErrInvalidToken
    /\ \A r \in Reqs :
         ( /\ Verified(r)
           /\ req[r].hdr.tok.form = "jwt"
           /\ req[r].hdr.tok.sigKey \in ProviderKeys
           /\ req[r].vLate = "after" )
         => req[r].res.err = ErrExpiredToken

\* C6: when a key set was obtained, a token whose signature does not verify
\* against it gets ErrInvalidToken and no Claims, whatever its claims are.
C6_TamperedIsInvalid ==
    \A r \in Reqs :
      ( /\ Verified(r)
        /\ req[r].hdr.tok.form = "jwt"
        /\ req[r].hdr.tok.sigKey \notin ProviderKeys )
      => (req[r].res.err = ErrInvalidToken /\ req[r].res.claims.isNil)

\* A forged token whose claims would all pass was rejected.
C6_Witness ==
    \E r \in Reqs :
      /\ Verified(r)
      /\ req[r].hdr.tok.sigKey \notin ProviderKeys
      /\ req[r].hdr.tok.iss = ExpectedIssuer
      /\ req[r].hdr.tok.use = <<"access">>
      /\ req[r].hdr.tok.groups = <<"admin">>
      /\ req[r].vLate = "before"
      /\ req[r].res.err = ErrInvalidToken

\* C8: a correctly signed, unexpired token whose issuer is not string-equal to
\* the expected issuer gets ErrInvalidToken; a longer issuer that starts with
\* the expected one, or one that differs in case only, is not accepted.
C8_IssuerExact ==
    \A r \in Reqs :
      ( /\ Verified(r)
        /\ req[r].hdr.tok.form = "jwt"
        /\ req[r].hdr.tok.sigKey \in ProviderKeys
        /\ req[r].vLate = "before"
        /\ req[r].hdr.tok.iss # ExpectedIssuer )
      => (req[r].res.err = ErrInvalidToken /\ req[r].res.claims.isNil)

\* A genuine access token whose issuer extends the expected one was rejected.
C8_Witness ==
    \E r \in Reqs :
      /\ Verified(r)
      /\ req[r].hdr.tok.sigKey \in ProviderKeys
      /\ req[r].vLate = "before"
      /\ req[r].hdr.tok.use = <<"access">>
      /\ req[r].hdr.tok.iss = ExpectedIssuer \o <<"/x">>
      /\ req[r].res.err = ErrInvalidToken

\* C10: a key-set fetch that fails when the guard found no unexpired cached
\* key set makes ValidateToken return an error and nil Claims; the failing
\* call writes neither jwksCache nor cacheExpiry; Authenticate answers 401
\* "invalid token" and does not call the next handler.
C10_FailedCallOutcome ==
    \A r \in Reqs :
      req[r].res.err = ErrRefreshFailed =>
        /\ req[r].res.claims.isNil
        /\ req[r].pc \in {"respond", "done"}
        /\ req[r].pc = "respond" => (req[r].refreshed /\ ~req[r].sawFresh)
        /\ req[r].pc = "done" =>
              /\ req[r].status = 401
              /\ req[r].body = MsgInvalidToken
              /\ req[r].nextCalls = 0
              /\ req[r].user.isNil

C10_FailedCallFrame ==
    \A r \in Reqs :
      ( /\ req[r].pc \in {"check", "fetch"}
        /\ req'[r] # req[r]
        /\ req'[r].pc \in {"fetch", "respond"} )
      => (jwksCache' = jwksCache /\ cacheExpiry' = cacheExpiry)

\* C10: a failed key-set fetch is fail-closed (error, nil Claims, 401, next
\* handler not called) and leaves jwksCache and cacheExpiry as they were.
C10_FailClosed == []C10_FailedCallOutcome /\ [][C10_FailedCallFrame]_vars

\* A request served after the previous one ended in a key-set failure.
C10_Witness ==
    /\ seq.afterFail
    /\ req[1].pc = "done"
    /\ req[1].status = 200
    /\ req[1].nextCalls = 1

\* C12: once no call is inside a refresh, the stored cacheExpiry is the one
\* computed for the fetch that produced the stored jwksCache: it was written
\* by the call that fetched those keys, or at least equals their fetch time
\* plus one hour.
C12_ExpiryOfStoredKeys ==
    (jwksCache # NoKeys /\ \A r \in Reqs : ~InRefresh(r))
      => \/ seq.paired
         \/ cacheExpiry = jwksCache.fetchedAt + CacheTTL

\* C13: when the context of a request is cancelled while its key-set fetch is
\* in flight and another request, having found the cache invalid as well, is
\* still without keys, the refresh is not abandoned: it stays in flight or its
\* keys reach the cache.
C13_RefreshSurvivesCancel ==
    [][ \A r \in Reqs :
          ( /\ req[r].pc = "fetch"
            /\ req'[r].res.err = ErrRefreshCancelled
            /\ \E w \in Reqs \ {r} : req[w].pc = "fetch" )
          => \/ InRefresh(r)'
             \/ jwksCache' = FetchedKeySet(now) ]_vars

\* What a call does once its guard ran on a cached key set with
\* now < cacheExpiry: it is past the guard without a refresh attempt and
\* without a key-set error.
C11_FreshCallState ==
    \A r \in Reqs :
      req[r].sawFresh =>
        /\ req[r].pc \in {"parse", "respond"}
        /\ ~req[r].refreshed
        /\ req[r].res.err # ErrRefreshFailed

\* A step of a call that is at the guard of a fresh cache, or past it,
\* starts no fetch and writes neither jwksCache nor cacheExpiry.
C11_FreshCallFrame ==
    \A r \in Reqs :
      ( /\ \/ req[r].sawFresh
           \/ (req[r].pc = "check" /\ jwksCache # NoKeys /\ now < cacheExpiry)
        /\ req'[r] # req[r] )
      => /\ jwksCache' = jwksCache
         /\ cacheExpiry' = cacheExpiry
         /\ req'[r].pc \notin {"fetch", "storeKeys", "storeExpiry"}
         /\ req'[r].res.err # ErrRefreshFailed

\* C11: while a key set is cached and now < validUntil, a ValidateToken call
\* performs no fetch, leaves jwksCache and cacheExpiry unchanged and does not
\* fail with a key-set error.
C11_FreshCacheNoFetch == []C11_FreshCallState /\ [][C11_FreshCallFrame]_vars

\* A call served from the fresh cache returned Claims.
C11_Witness ==
    \E r \in Reqs :
      /\ req[r].pc = "respond"
      /\ req[r].sawFresh
      /\ ~req[r].refreshed
      /\ ~req[r].res.claims.isNil

(***************************************************************************)
(* Properties of the bearer middleware                                     *)
(***************************************************************************)
\* The Authorization header is present (non-empty).
HeaderPresent(h) == h # EmptyHeader

\* The header has the form "<scheme> <rest>" with the scheme bearer in any case.
SchemeValid(h) == h.spaces >= 1 /\ h.scheme \in {"Bearer", "BEARER", "bearer"}

\* ValidateToken was called for the request in slot r.
VerifierCalled(r) ==
    \/ req[r].pc \in {"check", "fetch", "storeKeys", "storeExpiry", "parse", "respond"}
    \/ req[r].res # NoResult

\* Some step of the request in slot r can be taken.
CanStep(r) ==
    ENABLED ( \/ AuthenticateHeader(r) \/ CheckCache(r) \/ FetchOK(r)
              \/ FetchFail(r) \/ StoreKeys(r) \/ StoreExpiry(r)
              \/ ParseAndValidate(r) \/ Respond(r) )

\* C17: a request ends Attached (next handler called exactly once) or
\* Rejected (401, next handler never called) and nothing else; Attached comes
\* only after header-present, scheme-valid and token-validated; the verifier
\* is not called when the header is missing or the scheme invalid; a missing
\* header is answered 401 "missing authorization header".
C17_AuthenticateStateMachine ==
    \A r \in Reqs :
      LET q == req[r]
          attached == q.nextCalls = 1 /\ q.status = 200
          rejected == q.nextCalls = 0 /\ q.status = 401
      IN /\ q.pc = "done" => (attached \/ rejected) /\ ~(attached /\ rejected)
         /\ q.pc \notin {"idle", "done"} =>
               (q.status = 0 /\ q.nextCalls = 0 /\ CanStep(r))
         /\ q.nextCalls \in {0, 1}
         /\ q.nextCalls = 1 =>
               /\ HeaderPresent(q.hdr)
               /\ SchemeValid(q.hdr)
               /\ q.res.err = ErrNil /\ ~q.res.claims.isNil
         /\ (q.pc # "idle" /\ (~HeaderPresent(q.hdr) \/ ~SchemeValid(q.hdr))) =>
               ~VerifierCalled(r)
         /\ (q.pc = "done" /\ ~HeaderPresent(q.hdr)) =>
               /\ rejected
               /\ q.body = "Unauthorized: missing authorization header"

\* A request with the scheme in capitals was attached.
C17_Witness ==
    /\ req[1].pc = "done"
    /\ req[1].hdr.scheme = "BEARER"
    /\ req[1].nextCalls = 1

\* C18: whatever made ValidateToken fail (expired, malformed, bad signature,
\* wrong issuer, wrong token use, key set unavailable), the client gets
\* status 401 and the one body "invalid token"; two failed requests are
\* answered alike.
C18_UniformRejection ==
    \A r1, r2 \in Reqs :
      ( /\ req[r1].pc = "done" /\ req[r1].res.err \notin {"pending", ErrNil}
        /\ req[r2].pc = "done" /\ req[r2].res.err \notin {"pending", ErrNil} )
      => /\ req[r1].status = 401
         /\ req[r1].body = "Unauthorized: invalid token"
         /\ req[r1].nextCalls = 0
         /\ req[r1].status = req[r2].status
         /\ req[r1].body = req[r2].body

\* Two requests were rejected for different reasons.
C18_Witness ==
    \E r1, r2 \in Reqs :
      /\ req[r1].pc = "done" /\ req[r2].pc = "done"
      /\ req[r1].res.err = ErrInvalidToken
      /\ req[r2].res.err \in {ErrRefreshFailed, ErrRefreshCancelled}

\* C19: a downstream handler finds a User in the request's context iff the
\* request passed authentication; that User's fields equal the Claims
\* ValidateToken returned for the request's own token; a rejected request
\* has no User, and no request sees the User of another.
C19_UserAttachedIffAuthenticated ==
    \A r \in Reqs :
      LET q == req[r]
          found == GetUser(q)
          passed == q.pc = "done" /\ q.nextCalls = 1
      IN /\ (found.err = ErrNil) <=> passed
         /\ passed =>
               /\ q.res.err = ErrNil /\ ~q.res.claims.isNil
               /\ found.user.ID = q.res.claims.UserID
               /\ found.user.Email = q.res.claims.Email
               /\ found.user.Username = q.res.claims.Username
               /\ found.user.Roles = q.res.claims.Roles
               /\ found.user.IsAdmin = q.res.claims.IsAdmin
               /\ found.user.ID = q.hdr.tok.sub
               /\ found.user.Roles = q.hdr.tok.groups
         /\ q.status = 401 => (found.err = ErrNoUserInContext /\ found.user.isNil)

\* Two requests are attached at once, each with its own user.
C19_Witness ==
    \E r1, r2 \in Reqs :
      /\ req[r1].pc = "done" /\ req[r1].nextCalls = 1
      /\ req[r2].pc = "done" /\ req[r2].nextCalls = 1
      /\ GetUser(req[r1]).user.Roles = <<"admin">>
      /\ GetUser(req[r2]).user.Roles = <<"user">>

(***************************************************************************)
(* Properties of both token verifiers                                      *)
(***************************************************************************)
\* The Cognito verifier on token tok at time t with the provider's keys cached.
CognitoResult(tok, t) == ValidateAfterRefresh(tok, FetchedKeySet(0), t)

\* C7: both verifiers return ErrInvalidToken for every correctly signed,
\* unexpired token that is not an access token, the refresh token of
\* GenerateTokenPair included.
C7_NonAccessRejected ==
    /\ \A tok \in JwtTokens, t \in 0..MaxTime :
         (tok.sigKey \in ProviderKeys /\ t < tok.exp /\ tok.use # <<"access">>)
         => CognitoResult(tok, t).err = ErrInvalidToken
    /\ ( /\ jwtSt.pc = "validated"
         /\ jwtSt.tok.sigOK
         /\ jwtSt.late = "before"
         /\ jwtSt.kind = "refresh" )
       => jwtSt.res.err = ErrInvalidToken

\* C9: in every Claims a verifier returns, and in the User Authenticate
\* builds from it, isAdmin holds iff the roles contain "admin".
C9_AdminIffAdminRole ==
    /\ \A tok \in JwtTokens, t \in 0..MaxTime :
         LET c == CognitoResult(tok, t).claims IN
         ~c.isNil =>
           /\ c.IsAdmin <=> (\E i \in 1..Len(c.Roles) : c.Roles[i] = "admin")
           /\ UserFromClaims(c).IsAdmin = c.IsAdmin
           /\ UserFromClaims(c).Roles = c.Roles
    /\ (jwtSt.pc = "validated" /\ ~jwtSt.res.claims.isNil)
       => ( jwtSt.res.claims.IsAdmin <=>
              \E i \in 1..Len(jwtSt.res.claims.Roles) :
                 jwtSt.res.claims.Roles[i] = "admin" )

(***************************************************************************)
(* Properties of the signature middleware                                  *)
(***************************************************************************)
\* The Signature= value of the request's Authorization header.
SuppliedSignature(q) == PartValue(q.auth.parts, "Signature=")

\* C2: the signature middleware calls the next handler only if the supplied
\* signature equals the one recomputed from the shared secret over the
\* canonical request; any other request gets 401 and no call of next.
C2_SignatureChecked ==
    iamSt.pc = "served" =>
      /\ iamSt.out.nextCalls > 0 =>
            SuppliedSignature(iamSt.q) = ExpectedSignature(iamSt.secret, iamSt.q)
      /\ SuppliedSignature(iamSt.q) # ExpectedSignature(iamSt.secret, iamSt.q) =>
            (iamSt.out.status = 401 /\ iamSt.out.nextCalls = 0)


(***************************************************************************)
(* Properties of the authorization predicates                              *)
(***************************************************************************)
\* The role registry as a map from role names to sets of permissions.
RegistrySet(roleName) ==
    CASE roleName = "user"   -> { "items:read" }
      [] roleName = "editor" -> { "items:read", "items:write" }
      [] roleName = "admin"  -> { "items:read", "items:write", "items:delete",
                                  "aws:read", "aws:write", "admin:*" }
      [] OTHER               -> { }

\* C14: HasPermission(u, p) equals: u.IsAdmin, or some role of u has p or
\* the wildcard "admin:*" in its registry set; so it is true for every p when
\* IsAdmin is true, and false for a non-admin user holding only unknown roles.
C14_HasPermissionDefinition ==
    gateSt.pc \in {"asked", "grown"} =>
      LET u == gateSt.user
          p == gateSt.perm
          known == { i \in 1..Len(u.Roles) : u.Roles[i] \in {"user", "editor", "admin"} }
      IN /\ gateSt.hasPerm <=>
              \/ u.IsAdmin
              \/ \E i \in 1..Len(u.Roles) :
                    p \in RegistrySet(u.Roles[i]) \/ "admin:*" \in RegistrySet(u.Roles[i])
         /\ u.IsAdmin => gateSt.hasPerm
         /\ (~u.IsAdmin /\ known = {}) => ~gateSt.hasPerm

\* An editor that is no admin was granted items:write.
C14_Witness ==
    /\ gateSt.pc = "asked"
    /\ ~gateSt.user.IsAdmin
    /\ gateSt.user.Roles = <<"guest", "editor">>
    /\ gateSt.perm = "items:write"
    /\ gateSt.hasPerm


\* C15: HasPermission is monotonic in roles: a permission the user had is
\* still had after any role name, known or unknown, is added to the roles.
C15_MonotonicInRoles ==
    (gateSt.pc = "grown" /\ gateSt.hadPerm) => gateSt.hasPerm

\* A non-admin user kept a permission when an unknown role was added.
C15_Witness ==
    /\ gateSt.pc = "grown"
    /\ ~gateSt.user.IsAdmin
    /\ gateSt.added = "guest"
    /\ gateSt.hadPerm
    /\ gateSt.hasPerm

\* C16: HasAnyRole(u, R) holds iff u.Roles and R share a role name; IsAdmin
\* and the role "admin" match nothing else, and an empty R or empty u.Roles
\* gives false.
C16_HasAnyRoleIsIntersection ==
    gateSt.pc \in {"asked", "grown"} =>
      LET held == { gateSt.user.Roles[i] : i \in 1..Len(gateSt.user.Roles) }
          wanted == { gateSt.required[j] : j \in 1..Len(gateSt.required) }
      IN /\ gateSt.hasRole <=> (held \cap wanted # {})
         /\ (held = {} \/ wanted = {}) => ~gateSt.hasRole

\* An admin without the required role was not matched.
C16_Witness ==
    /\ gateSt.pc = "asked"
    /\ gateSt.user.IsAdmin
    /\ gateSt.user.Roles = <<"admin">>
    /\ gateSt.required = <<"guest">>
    /\ ~gateSt.hasRole


\* C20: each gate answers 401 without calling next when no User is attached;
\* 403 without calling next when a User is attached and the gate's predicate
\* (HasPermission, HasAnyRole, IsAdmin) is false; otherwise it calls next
\* exactly once.
C20_GateOutcomes ==
    gateSt.pc = "served" =>
      LET u == gateSt.user
          pred == CASE gateSt.gate = "permission" -> HasPermission(u, gateSt.perm)
                    [] gateSt.gate = "role" -> HasAnyRole(u, gateSt.required)
                    [] gateSt.gate = "admin" -> u.IsAdmin
          out == gateSt.out
      IN /\ gateSt.gate \in {"permission", "role", "admin"}
         /\ u.isNil => (out.status = 401 /\ out.nextCalls = 0)
         /\ (~u.isNil /\ ~pred) => (out.status = 403 /\ out.nextCalls = 0)
         /\ (~u.isNil /\ pred) => (out.nextCalls = 1 /\ out.status \notin {401, 403})

\* The role gate refused an attached user who lacks the required roles.
C20_Witness ==
    /\ gateSt.pc = "served"
    /\ gateSt.gate = "role"
    /\ ~gateSt.user.isNil
    /\ gateSt.user.Roles = <<"user">>
    /\ gateSt.required = <<"editor", "admin">>
    /\ gateSt.out.status = 403


(***************************************************************************)
(* Properties of gated routes                                              *)
(***************************************************************************)
\* C21: a valid bearer token whose roles are exactly <<"editor">> passes
\* Authenticate; behind it the gate on "items:write" calls the handler and
\* the gate on "items:delete" answers 403 and does not call it.
C21_EditorWritesButCannotDelete ==
    req[1].hdr.tok.groups = <<"editor">> =>
      /\ req[1].pc = "done" => (req[1].nextCalls = 1 /\ req[1].status # 401)
      /\ (gateSt.pc = "served" /\ gateSt.gate = "permission") =>
            /\ gateSt.perm = "items:write" => gateSt.out.nextCalls = 1
            /\ gateSt.perm = "items:delete" =>
                  (gateSt.out.status = 403 /\ gateSt.out.nextCalls = 0)

\* The editor's request was refused at the gate on items:delete.
C21_Witness ==
    /\ req[1].hdr.tok.groups = <<"editor">>
    /\ req[1].nextCalls = 1
    /\ gateSt.pc = "served"
    /\ gateSt.gate = "permission"
    /\ gateSt.perm = "items:delete"
    /\ gateSt.out.status = 403


(***************************************************************************)
(* Properties of the signature authenticator's time window                 *)
(***************************************************************************)
\* C22: a request that the signature authenticator has accepted is accepted
\* again on every verbatim replay while now - timestamp <= 15 minutes, and
\* is answered 401 on every replay once now - timestamp > 15 minutes.
C22_ReplayWithinWindow ==
    (iamSt.pc = "served" /\ iamSt.accepted) =>
       IF iamSt.t - iamSt.q.date.ts <= ReplayWindow
         THEN iamSt.out.nextCalls = 1 /\ ~iamSt.out.panicked
         ELSE iamSt.out.status = 401 /\ iamSt.out.nextCalls = 0

\* A request accepted earlier is refused on a replay after the window.
C22_Witness ==
    /\ iamSt.pc = "served"
    /\ iamSt.accepted
    /\ iamSt.t - iamSt.q.date.ts > ReplayWindow
    /\ iamSt.out.status = 401

\* A request accepted earlier is accepted on a replay at the window's edge.
C22_WitnessReplayed ==
    /\ iamSt.pc = "served"
    /\ iamSt.accepted
    /\ iamSt.t - iamSt.q.date.ts = ReplayWindow
    /\ iamSt.out.nextCalls = 1

\* C29: every request the signature authenticator passes to next carries a
\* timestamp within 15 minutes of the server's time in either direction.
C29_WindowBothDirections ==
    (iamSt.pc = "served" /\ iamSt.out.nextCalls = 1) =>
       /\ iamSt.t - iamSt.q.date.ts <= ReplayWindow
       /\ iamSt.q.date.ts - iamSt.t <= ReplayWindow


(***************************************************************************)
(* Properties of the signature authenticator's rejections                  *)
(***************************************************************************)
\* The header has no part that starts with the key k.
LacksPart(h, k) == \A i \in 1..Len(h.parts) : h.parts[i].k # k

StartsWithTag(h) == HasAlgorithmPrefix(h.tag)

Malformed(q) ==
    \/ ~q.present
    \/ ~StartsWithTag(q.auth)
    \/ \E k \in {"Credential=", "SignedHeaders=", "Signature="} :
          LacksPart(q.auth, k)
    \/ q.date.kind # "ok"

\* C23: a request whose Authorization header is missing, does not start with
\* the algorithm tag or lacks one of Credential=, SignedHeaders=, Signature=,
\* or whose timestamp header is missing or unparsable, is answered 401 and
\* next is not called; with Credential= present and Signature= absent the
\* body is the "Invalid Authorization header format" message.
C23_MalformedRejected ==
    (iamSt.pc = "served" /\ Malformed(iamSt.q)) =>
       /\ iamSt.out.status = 401
       /\ iamSt.out.nextCalls = 0
       /\ ~iamSt.out.panicked
       /\ ( /\ iamSt.q.present
            /\ iamSt.q.auth.tag = AlgorithmTag
            /\ ~LacksPart(iamSt.q.auth, "Credential=")
            /\ LacksPart(iamSt.q.auth, "Signature=") )
          => iamSt.out.body = IamMsgFormat

\* A header with Credential= and without Signature= was refused.
C23_Witness ==
    /\ iamSt.pc = "served"
    /\ iamSt.q.present
    /\ iamSt.q.auth.tag = AlgorithmTag
    /\ ~LacksPart(iamSt.q.auth, "Credential=")
    /\ LacksPart(iamSt.q.auth, "Signature=")
    /\ iamSt.q.date.kind = "ok"
    /\ iamSt.out.status = 401
    /\ iamSt.out.body = IamMsgFormat

\* C24: whatever the headers, the signature authenticator ends by writing a
\* status or by calling next, and never panics.
C24_SignatureAuthenticatorNeverPanics ==
    iamSt.pc = "served" =>
       /\ ~iamSt.out.panicked
       /\ (iamSt.out.status # 0 \/ iamSt.out.nextCalls = 1)


(***************************************************************************)
(* Properties of the claims ValidateToken returns                          *)
(***************************************************************************)
\* C27: for a token that is validly signed, unexpired, and whose issuer and
\* token_use match the configuration, ValidateToken returns Claims whose
\* UserID is the token's sub claim.
C27_UserIDIsSubject ==
    \A r \in Reqs :
      LET q == req[r]
          tok == q.hdr.tok
      IN ( /\ Verified(r)
           /\ tok.form = "jwt"
           /\ q.vSigOK
           /\ q.vLate = "before"
           /\ tok.iss = ExpectedIssuer
           /\ tok.use = <<"access">> )
         => ( /\ q.res.err = ErrNil
              /\ ~q.res.claims.isNil
              /\ q.res.claims.UserID = tok.sub )

\* ValidateToken returned Claims for a subject.
C27_Witness ==
    \E r \in Reqs :
      /\ Verified(r)
      /\ req[r].res.err = ErrNil
      /\ req[r].hdr.tok.sub = "u1"
      /\ req[r].res.claims.UserID = "u1"


\* C30: for every user Authenticate attaches from the Claims of
\* CognitoService.ValidateToken, RequireAdmin calls the handler iff
\* HasPermission(user, "admin:*") iff the user's roles contain "admin".
C30_AdminGateIsAdminPermission ==
    (gateSt.pc = "served" /\ gateSt.gate = "admin") =>
       LET u == req[1].user
           hasAdminRole == \E i \in 1..Len(u.Roles) : u.Roles[i] = "admin"
       IN /\ ~u.isNil
          /\ (gateSt.out.nextCalls = 1) <=> HasPermission(u, PermissionAdmin)
          /\ HasPermission(u, PermissionAdmin) <=> hasAdminRole
          /\ gateSt.out.nextCalls = 0 => gateSt.out.status = 403

\* RequireAdmin admitted an attached user whose admin role is not the first.
C30_Witness ==
    /\ gateSt.pc = "served"
    /\ gateSt.gate = "admin"
    /\ req[1].user.Roles = <<"editor", "admin">>
    /\ gateSt.out.nextCalls = 1


(***************************************************************************)
(* Properties of the bearer header format                                  *)
(***************************************************************************)
\* The header is "<scheme> <token>": the scheme bearer in any case, exactly
\* one space, a token that is not empty.
BearerForm(h) ==
    /\ ToLower(h.scheme) = "bearer"
    /\ h.spaces = 1
    /\ h.tok.form # "empty"

\* C28: every non-empty Authorization header that is not of the form
\* "Bearer <token>" (the scheme alone, the scheme and a space with an empty
\* token, the scheme and two spaces, another scheme) is answered 401
\* "invalid authorization header format" without a call of the verifier.
C28_OnlyBearerFormReachesVerifier ==
    \A r \in Reqs :
      LET q == req[r] IN
      (q.pc # "idle" /\ HeaderPresent(q.hdr) /\ ~BearerForm(q.hdr)) =>
         /\ ~VerifierCalled(r)
         /\ q.pc = "done" => (q.status = 401 /\ q.body = MsgBadFormat)


(***************************************************************************)
(* Properties of the item store                                            *)
(***************************************************************************)
\* Creates that have stored their item and not yet answered.
StoredUnanswered ==
    { c \in Clients : itemReq[c].kind = "create"
                        /\ itemReq[c].pc \in {"unlock", "respond"} }

\* C25: under concurrent creates and lists the store holds exactly one item
\* per create that stored, the ids answered with 201 are distinct and are
\* 1, 2, 3, ... without reuse or gap, no answered item is lost or
\* overwritten, and a list request that arrived after a create was answered
\* 201 returns that item.
C25_ItemStoreConsistent ==
    /\ \A i, j \in 1..Len(created) : i # j => created[i].ID # created[j].ID
    /\ \A i \in 1..Len(created) :
          created[i].ID \in DOMAIN items /\ items[created[i].ID] = created[i]
    /\ \A c \in StoredUnanswered :
          /\ itemReq[c].id \in DOMAIN items
          /\ itemReq[c].id \notin CreatedIDs
          /\ items[itemReq[c].id].Name = itemReq[c].body.name
    /\ Cardinality(DOMAIN items) = Len(created) + Cardinality(StoredUnanswered)
    /\ \A id \in DOMAIN items : items[id].ID = id
    /\ DOMAIN items = 1..Cardinality(DOMAIN items)
    /\ ~itemsMux.writer => nextID = Cardinality(DOMAIN items) + 1
    /\ \A c \in Clients :
          (itemReq[c].pc = "done" /\ itemReq[c].kind = "list") =>
             /\ itemReq[c].status = 200
             /\ \A id \in itemReq[c].seen :
                   \E it \in itemReq[c].resp.list :
                      it.ID = id /\ \E i \in 1..Len(created) : created[i] = it

\* Two creates were answered 201 and a later list returned both items.
C25_Witness ==
    /\ Len(created) >= 2
    /\ \E c \in Clients :
         /\ itemReq[c].pc = "done"
         /\ itemReq[c].kind = "list"
         /\ Cardinality(itemReq[c].seen) >= 2
         /\ Cardinality(itemReq[c].resp.list) >= 2

\* The body breaks a rule of validation: empty name, name longer than 100,
\* description longer than 500.
FailsValidation(b) ==
    /\ b.json
    /\ \/ b.name.len = 0
       \/ b.name.len > MaxNameLen
       \/ b.description.len > MaxDescriptionLen

\* C26: a step of a create request whose body fails validation answers 400
\* with the error "validation failed" and leaves items and nextID unchanged.
C26_InvalidCreateLeavesStore ==
    [][ \A c \in Clients :
          ( /\ itemReq[c].pc = "decode"
            /\ FailsValidation(itemReq[c].body)
            /\ itemReq'[c] # itemReq[c] )
          => ( /\ itemReq'[c].pc = "done"
               /\ itemReq'[c].status = 400
               /\ itemReq'[c].resp.kind = "json"
               /\ itemReq'[c].resp.error = "validation failed"
               /\ items' = items
               /\ nextID' = nextID ) ]_vars

\* A create with a name of 101 characters was answered 400 while the store
\* held an item.
C26_Witness ==
    \E c \in Clients :
      /\ itemReq[c].pc = "done"
      /\ itemReq[c].kind = "create"
      /\ itemReq[c].body.name.len = MaxNameLen + 1
      /\ itemReq[c].status = 400
      /\ DOMAIN items # {}

====
